---- MODULE Spec2Model ----
(***************************************************************************)
(* Model of avr_misc_util.c: the four integer helpers calc_presc_CSbits,   *)
(* calc_uart_UBRRn, round_near_mul_wovf and round_near_mul_wsat, as        *)
(* compiled for the AVR8 target the file is written for (<avr/io.h>):      *)
(* int and unsigned int are 16 bits wide, uint32_t is 32 bits wide.        *)
(*                                                                         *)
(* A uint32_t value is a pair <<hi, lo>> of 16-bit halves, so that the     *)
(* arithmetic modulo 2^32 of the source is computed exactly.               *)
(***************************************************************************)
EXTENDS Integers, Sequences, FiniteSets

VARIABLES call, args, ret, timer_ticks, locals, prev

vars == <<call, args, ret, timer_ticks, locals, prev>>

(***************************************************************************)
(* Machine arithmetic                                                      *)
(***************************************************************************)
W16 == 65536

UINT8_MAX == 255

U32(n) == <<n \div W16, n % W16>>

Fits(a) == a[1] < 32768

ToInt(a) == a[1] * W16 + a[2]

Lt32(a, b) == a[1] < b[1] \/ (a[1] = b[1] /\ a[2] < b[2])

Sub32(a, b) ==
  LET lo == a[2] - b[2]
      bw == IF lo < 0 THEN 1 ELSE 0
  IN  <<(a[1] - b[1] - bw) % W16, lo % W16>>

MulSmall32(a, k) ==
  LET lo == a[2] * k
  IN  <<(a[1] * k + lo \div W16) % W16, lo % W16>>

DivSmall32(a, k) ==
  LET rest == (a[1] % k) * W16 + a[2]
  IN  <<a[1] \div k, rest \div k>>

UDiv32(n, d) == IF Fits(d) THEN n \div ToInt(d) ELSE 0

(***************************************************************************)
(* round_near_mul_wovf / round_near_mul_wsat                               *)
(***************************************************************************)
\* faulty variant: the half of y is not added before truncating to a multiple
round_near_mul_wovf_trunc(x, y) ==
  IF y = 0 THEN 0
  ELSE LET t1 == x % W16
           t2 == (t1 - (t1 % y)) % W16
           t3 == IF t2 > UINT8_MAX THEN ((t2 \div y) * y) % W16 ELSE t2
       IN  t3 % 256

round_near_mul_wovf(x, y) ==
  IF y = 0 THEN 0
  ELSE LET t1 == (x + (y \div 2)) % W16
           t2 == (t1 - (t1 % y)) % W16
           t3 == IF t2 > UINT8_MAX THEN ((t2 \div y) * y) % W16 ELSE t2
       IN  t3 % 256

\* faulty variant: the overflow branch divides the overflowed sum, as the wovf variant does
round_near_mul_wsat_wrap(x, y) ==
  IF y = 0 THEN 0
  ELSE LET t1 == (x + (y \div 2)) % W16
           t2 == (t1 - (t1 % y)) % W16
           t3 == IF t2 > UINT8_MAX THEN ((t2 \div y) * y) % W16 ELSE t2
       IN  t3 % 256

\* faulty variant: the remainder is not subtracted
round_near_mul_wsat_nosub(x, y) ==
  IF y = 0 THEN 0
  ELSE LET t1 == (x + (y \div 2)) % W16
           t3 == IF t1 > UINT8_MAX THEN ((x \div y) * y) % W16 ELSE t1
       IN  t3 % 256

round_near_mul_wsat(x, y) ==
  IF y = 0 THEN 0
  ELSE LET t1 == (x + (y \div 2)) % W16
           t2 == (t1 - (t1 % y)) % W16
           t3 == IF t2 > UINT8_MAX THEN ((x \div y) * y) % W16 ELSE t2
       IN  t3 % 256

(***************************************************************************)
(* calc_presc_CSbits                                                       *)
(***************************************************************************)
F_CPU == 16000000

AVR_TIMER0 == 0

AVR_TIMER1 == 1

AVR_TIMER2 == 2

AVR_TIMER3 == 3

AVR_TIMER4 == 4

AVR_TIMER5 == 5

\* prescalers[] is indexed from 0 in the source, from 1 here
prescalers == <<1, 8, 64, 256, 1024, 1, 8, 32, 64, 128, 256, 1024>>

prescaler_start(timer_id) == IF timer_id = AVR_TIMER2 THEN 5 ELSE 0

\* faulty variant: the last divisor of timer 2 is left out
prescaler_end_mut(timer_id) == IF timer_id = AVR_TIMER2 THEN 11 ELSE 5

prescaler_end(timer_id) == IF timer_id = AVR_TIMER2 THEN 12 ELSE 5

timer_max(timer_id) ==
  IF timer_id \in {AVR_TIMER1, AVR_TIMER3, AVR_TIMER4, AVR_TIMER5}
  THEN 65535 ELSE 255

\* faulty variant: the 1 is not subtracted
ticks_for_mut(temp, p) == U32(temp \div p)

\* val=(temp/prescalers[counter])-1, in uint32_t
ticks_for(temp, p) == Sub32(U32(temp \div p), <<0, 1>>)

\* faulty variant: the zero-based offset is returned
cs_bits_mut(counter, start) == counter - start - 1

\* return (counter-prescaler_start)
cs_bits(counter, start) == counter - start

\* the do/while loop: returns <<val, counter>> at loop exit
RECURSIVE presc_loop(_, _, _, _)
presc_loop(temp, counter, tmax, pend) ==
  LET val  == ticks_for(temp, prescalers[counter + 1])
      next == counter + 1
  IN  IF Lt32(<<0, tmax>>, val) /\ next < pend
      THEN presc_loop(temp, next, tmax, pend)
      ELSE <<val, next>>

calc_presc_CSbits(freq, timer_id) ==
  IF freq = <<0, 0>>
  THEN [ret |-> -1, written |-> FALSE, ticks |-> 0]
  ELSE IF timer_id \notin {AVR_TIMER0, AVR_TIMER1, AVR_TIMER2,
                           AVR_TIMER3, AVR_TIMER4, AVR_TIMER5}
  THEN [ret |-> -1, written |-> FALSE, ticks |-> 0]
  ELSE LET temp    == UDiv32(F_CPU, freq)
           out     == presc_loop(temp, prescaler_start(timer_id),
                                 timer_max(timer_id), prescaler_end(timer_id))
           val     == out[1]
           counter == IF out[2] = 0 THEN 1 ELSE out[2]
       IN  IF Lt32(<<0, timer_max(timer_id)>>, val)
           THEN [ret |-> -1, written |-> FALSE, ticks |-> 0]
           ELSE [ret |-> cs_bits(counter, prescaler_start(timer_id)),
                 written |-> TRUE, ticks |-> val[2]]

(***************************************************************************)
(* calc_uart_UBRRn                                                         *)
(***************************************************************************)
\* (uint32_t)(UART_MAX_ERR_RATE*10) with UART_MAX_ERR_RATE = 2.5
UART_MAX_ERR_RATE_x10 == 25

UART_ERR_CALC(x) == DivSmall32(MulSmall32(x, UART_MAX_ERR_RATE_x10), 1000)

\* A division by zero is undefined: its quotient is any of these.
DivZeroResults == {<<0, 0>>, <<0, 1>>, <<65535, 65535>>}

\* abs(INT_MIN) is undefined: its int result, converted to uint32_t, is any of these.
AbsIntMinResults == {<<65535, 32768>>, <<0, 0>>, <<0, 32767>>}

\* abs() takes an int: the int32_t argument is converted to 16 bits first.
abs(d, am) ==
  IF d[2] < 32768 THEN <<0, d[2]>>
  ELSE IF d[2] = 32768 THEN am
  ELSE <<0, W16 - d[2]>>

\* prescaler*(temp+1): uint8_t promoted to int, uint16_t is unsigned int
mul_presc(prescaler, temp) == (prescaler * ((temp + 1) % W16)) % W16

\* faulty variant: first_diff<=second_diff
keep_first_mut(first_diff, second_diff) == ~Lt32(second_diff, first_diff)

\* if(first_diff<second_diff) temp=first_val;
keep_first(first_diff, second_diff) == Lt32(first_diff, second_diff)

to_int16(t) == IF t >= 32768 THEN t - W16 ELSE t

calc_uart_UBRRn(baudrate, is_U2X_set, dz, am) ==
  LET prescaler   == IF is_U2X_set THEN 8 ELSE 16
      prod        == MulSmall32(baudrate, prescaler)
      quot        == IF prod = <<0, 0>> THEN dz ELSE U32(UDiv32(F_CPU, prod))
      temp1       == (quot[2] - 1) % W16
      div1        == mul_presc(prescaler, temp1)
      check1      == IF div1 = 0 THEN dz ELSE U32(F_CPU \div div1)
      first_diff  == abs(Sub32(check1, baudrate), am)
      first_val   == temp1
      temp2       == IF Lt32(baudrate, check1)
                     THEN (temp1 + 1) % W16 ELSE (temp1 - 1) % W16
      div2        == mul_presc(prescaler, temp2)
      check2      == IF div2 = 0 THEN dz ELSE U32(F_CPU \div div2)
      second_diff == abs(Sub32(check2, baudrate), am)
      keep        == keep_first(first_diff, second_diff)
      temp3       == IF keep THEN first_val ELSE temp2
      diff        == IF keep THEN first_diff ELSE second_diff
      L(r, st, dvz, ub) ==
        [ret |-> r, stage |-> st, prescaler |-> prescaler,
         first_val |-> first_val, adjacent |-> temp2,
         first_diff |-> first_diff, second_diff |-> second_diff,
         divzero |-> dvz, absmin |-> ub]
  IN  IF baudrate = <<0, 0>> THEN L(-1, "sanity", FALSE, FALSE)
      ELSE IF temp1 > 4095 THEN L(-1, "range", prod = <<0, 0>>, FALSE)
      ELSE IF check1 = baudrate
      THEN L(to_int16(temp1), "exact", prod = <<0, 0>> \/ div1 = 0, FALSE)
      ELSE LET dvz == prod = <<0, 0>> \/ div1 = 0 \/ div2 = 0
               ub  == Sub32(check1, baudrate)[2] = 32768
                      \/ Sub32(check2, baudrate)[2] = 32768
           IN  IF Lt32(UART_ERR_CALC(baudrate), diff)
               THEN L(-1, "margin", dvz, ub)
               ELSE L(to_int16(temp3), "compared", dvz, ub)

\* no call has been made: no locals, no earlier rounding call
NoLocals == [fn |-> "none"]

NoPrev == [fn |-> "none"]

Init ==
  /\ call = "none"
  /\ args = <<>>
  /\ ret = 0
  /\ timer_ticks = 0
  /\ locals = NoLocals
  /\ prev = NoPrev

Call_round_near_mul_wovf ==
  /\ call = "none"
  /\ \E x \in 0..UINT8_MAX, y \in 0..UINT8_MAX :
       /\ call' = "round_near_mul_wovf"
       /\ args' = <<x, y>>
       /\ ret' = round_near_mul_wovf(x, y)
  /\ UNCHANGED <<timer_ticks, locals, prev>>

Call_round_near_mul_wsat ==
  /\ call = "none"
  /\ \E x \in 0..UINT8_MAX, y \in 0..UINT8_MAX :
       /\ call' = "round_near_mul_wsat"
       /\ args' = <<x, y>>
       /\ ret' = round_near_mul_wsat(x, y)
  /\ UNCHANGED <<timer_ticks, locals, prev>>

\* the caller feeds the rounded value back into the same function
ReRound_wovf ==
  /\ call = "round_near_mul_wovf"
  /\ prev = NoPrev
  /\ prev' = [fn |-> call, x |-> args[1], y |-> args[2], r |-> ret]
  /\ args' = <<ret, args[2]>>
  /\ ret' = round_near_mul_wovf(ret, args[2])
  /\ UNCHANGED <<call, timer_ticks, locals>>

ReRound_wsat ==
  /\ call = "round_near_mul_wsat"
  /\ prev = NoPrev
  /\ prev' = [fn |-> call, x |-> args[1], y |-> args[2], r |-> ret]
  /\ args' = <<ret, args[2]>>
  /\ ret' = round_near_mul_wsat(ret, args[2])
  /\ UNCHANGED <<call, timer_ticks, locals>>

MaxFreq == 1000

MaxTimerId == 6

Freqs ==
  {U32(n) : n \in 0..MaxFreq}
    \cup {U32(n) : n \in {1952, 1953, 1954, 7811, 7812, 7813, 62499, 62500,
                          62501, 1000000, 6000000, 8000000, 8000001,
                          16000000, 16000001, 268435456}}
    \cup {<<65535, 65535>>}

Call_calc_presc_CSbits ==
  /\ call = "none"
  /\ \E freq \in Freqs, timer_id \in 0..MaxTimerId :
       LET r == calc_presc_CSbits(freq, timer_id)
       IN  /\ call' = "calc_presc_CSbits"
           /\ args' = <<freq, timer_id>>
           /\ ret' = r.ret
           /\ timer_ticks' = IF r.written THEN r.ticks ELSE timer_ticks
           /\ locals' = r
  /\ UNCHANGED prev

MaxBaud == 1200

BaudRates ==
  {U32(n) : n \in 0..MaxBaud}
    \cup {U32(n) : n \in {2400, 4800, 9600, 14400, 19200, 28800, 38400,
                          57600, 76800, 115200, 230400, 250000,
                          261266, 460800, 500000, 1000000, 2000000,
                          268435456, 268497956, 268935457, 269035456,
                          536870912}}
    \cup {<<65535, 65535>>}

Call_calc_uart_UBRRn ==
  /\ call = "none"
  /\ \E baudrate \in BaudRates, is_U2X_set \in BOOLEAN,
        dz \in DivZeroResults, am \in AbsIntMinResults :
       LET r == calc_uart_UBRRn(baudrate, is_U2X_set, dz, am)
       IN  /\ call' = "calc_uart_UBRRn"
           /\ args' = <<baudrate, is_U2X_set>>
           /\ ret' = r.ret
           /\ locals' = r
  /\ UNCHANGED <<timer_ticks, prev>>

NextTimer == Call_calc_presc_CSbits

SpecTimer == Init /\ [][NextTimer]_vars

NextUart == Call_calc_uart_UBRRn

SpecUart == Init /\ [][NextUart]_vars

NextRound ==
  \/ Call_round_near_mul_wovf
  \/ Call_round_near_mul_wsat
  \/ ReRound_wovf
  \/ ReRound_wsat

SpecRound == Init /\ [][NextRound]_vars

Next == NextTimer \/ NextUart \/ NextRound

Spec == Init /\ [][Next]_vars

(***************************************************************************)
(* Properties                                                              *)
(***************************************************************************)
IsUart == call = "calc_uart_UBRRn"

IsPresc == call = "calc_presc_CSbits"

IsFirstRound == call \in {"round_near_mul_wovf", "round_near_mul_wsat"} /\ prev = NoPrev

AbsDiff(a, b) == IF a >= b THEN a - b ELSE b - a

\* the baud rate a divisor d yields, in whole Hz
ImpliedBaud(d) == F_CPU \div (locals.prescaler * (d + 1))

\* C1: for every nonzero baudrate calc_uart_UBRRn returns -1 or a divisor in
\* 0..4095 whose implied baud rate is within 2.5% of baudrate.
C1_DivisorWithinMargin ==
  (IsUart /\ args[1] # <<0, 0>>) =>
     \/ ret = -1
     \/ /\ ret \in 0..4095
        /\ Fits(args[1])
        /\ 40 * AbsDiff(ImpliedBaud(ret), ToInt(args[1])) <= ToInt(args[1])

\* true deviation of divisor d from the requested baud rate
Deviation(d) == AbsDiff(ImpliedBaud(d), ToInt(args[1]))

UartCompared ==
  /\ IsUart
  /\ locals.stage = "compared"
  /\ ret >= 0

\* C8 (as claimed): on a tie between the original candidate and the adjacent
\* one, a call that does not fail returns the original candidate.
C8_TieReturnsOriginal ==
  ( /\ UartCompared
    /\ Fits(args[1])
    /\ ~locals.divzero
    /\ ~locals.absmin
    /\ Deviation(locals.first_val) = Deviation(locals.adjacent) )
  => ret = locals.first_val

\* C8 (amended): a call that reaches the comparison and does not fail returns
\* the original candidate exactly when first_diff < second_diff; on a tie
\* (first_diff = second_diff) it returns the adjacent candidate.
C8_TieReturnsAdjacent ==
  UartCompared =>
    /\ (ret = locals.first_val) <=> Lt32(locals.first_diff, locals.second_diff)
    /\ (locals.first_diff = locals.second_diff) => ret = locals.adjacent

C8_Witness ==
  /\ UartCompared
  /\ ~locals.divzero
  /\ ~locals.absmin
  /\ locals.first_diff = locals.second_diff
  /\ Deviation(locals.first_val) = Deviation(locals.adjacent)
  /\ ret = locals.adjacent
  /\ ret = locals.first_val + 1

\* C10: a call of calc_uart_UBRRn with a nonzero baudrate never divides by
\* zero (neither by baudrate*prescaler nor by prescaler*(temp+1)).
C10_NoDivisionByZero ==
  (IsUart /\ args[1] # <<0, 0>>) => ~locals.divzero

\* the timer's prescaler subrange and counter maximum, as the claims state them
Subrange(timer_id) ==
  IF timer_id = 2 THEN <<1, 8, 32, 64, 128, 256, 1024>>
  ELSE <<1, 8, 64, 256, 1024>>

CounterMax(timer_id) == IF timer_id \in {0, 2} THEN 255 ELSE 65535

Ratio == IF Fits(args[1]) THEN F_CPU \div ToInt(args[1]) ELSE 0

FitsCounter(p) ==
  /\ Ratio \div p >= 1
  /\ (Ratio \div p) - 1 <= CounterMax(args[2])

PrescOk == IsPresc /\ args[1] # <<0, 0>> /\ args[2] \in 0..5

PrescSuccess == PrescOk /\ locals.written

\* C2 (as claimed): on success the return value is the zero-based offset of
\* the divisor the written ticks were computed with, 0 for the first divisor.
C2_ReturnIsZeroBasedOffset ==
  PrescSuccess =>
    /\ ret \in 0..(Len(Subrange(args[2])) - 1)
    /\ timer_ticks = (Ratio \div Subrange(args[2])[ret + 1]) - 1
    /\ FitsCounter(Subrange(args[2])[1]) => ret = 0

\* C2 (amended): on success the return value is the one-based position (the
\* CS bits value) of the divisor the written ticks were computed with, 1 for
\* the first divisor.
C2_ReturnIsOneBasedPosition ==
  PrescSuccess =>
    /\ ret \in 1..Len(Subrange(args[2]))
    /\ timer_ticks = (Ratio \div Subrange(args[2])[ret]) - 1
    /\ FitsCounter(Subrange(args[2])[1]) => ret = 1

C2_Witness ==
  /\ PrescSuccess
  /\ FitsCounter(Subrange(args[2])[1])
  /\ ret = 1
  /\ timer_ticks = Ratio - 1

\* a/b < c/d for 0 <= a < b and 0 <= c < d, by Euclid's algorithm
RECURSIVE FracLess(_, _, _, _)
FracLess(a, b, c, d) ==
  IF c = 0 THEN FALSE
  ELSE IF a = 0 THEN TRUE
  ELSE IF (b \div a) # (d \div c) THEN (b \div a) > (d \div c)
  ELSE FracLess(d % c, c, b % a, a)

\* |F_CPU/dn - f| = DistInt + DistNum/dn, with 0 <= DistNum < dn
DistInt(dn, f) ==
  LET q == F_CPU \div dn
      r == F_CPU % dn
  IN  IF q >= f THEN q - f ELSE IF r = 0 THEN f - q ELSE f - q - 1

DistNum(dn, f) ==
  LET q == F_CPU \div dn
      r == F_CPU % dn
  IN  IF q >= f THEN r ELSE IF r = 0 THEN 0 ELSE dn - r

\* F_CPU/d1 is strictly closer to f than F_CPU/d2, compared exactly
Closer(d1, d2, f) ==
  \/ DistInt(d1, f) < DistInt(d2, f)
  \/ /\ DistInt(d1, f) = DistInt(d2, f)
     /\ FracLess(DistNum(d1, f), d1, DistNum(d2, f), d2)

\* the divisor and the total division factor calc_presc_CSbits selected
SelectedPresc == Subrange(args[2])[ret]

SelectedDiv == SelectedPresc * (timer_ticks + 1)

\* C3 (as claimed): on success no divisor of the subrange with any tick count
\* in 0..timer_max gives an effective frequency strictly closer to freq.
C3_ClosestAchievable ==
  PrescSuccess =>
    \A i \in 1..Len(Subrange(args[2])) : \A t \in 0..CounterMax(args[2]) :
       ~Closer(Subrange(args[2])[i] * (t + 1), SelectedDiv, ToInt(args[1]))

\* C3 (amended): on success the effective frequency is not below freq, and
\* the written ticks is the largest tick count of the selected divisor for
\* which that is so (one more tick gives a frequency below freq).
C3_ClosestFromAbove ==
  PrescSuccess =>
    /\ ToInt(args[1]) <= F_CPU \div SelectedDiv
    /\ ToInt(args[1]) > F_CPU \div (SelectedDiv + SelectedPresc)

C3_Witness ==
  /\ PrescSuccess
  /\ timer_ticks < CounterMax(args[2])
  /\ Closer(SelectedDiv + SelectedPresc, SelectedDiv, ToInt(args[1]))
  /\ ToInt(args[1]) <= F_CPU \div SelectedDiv

FirstFit(timer_id) ==
  LET S == {i \in 1..Len(Subrange(timer_id)) : FitsCounter(Subrange(timer_id)[i])}
  IN  CHOOSE i \in S : \A j \in S : i <= j

\* C9: calc_presc_CSbits succeeds exactly when some divisor of the subrange
\* keeps the ticks within the counter maximum; it then writes the ticks of
\* the first such divisor, within the maximum, and returns a non-negative
\* value; otherwise it returns -1.
C9_FirstFitSearch ==
  PrescOk =>
    IF \E i \in 1..Len(Subrange(args[2])) : FitsCounter(Subrange(args[2])[i])
    THEN /\ locals.written
         /\ timer_ticks = (Ratio \div Subrange(args[2])[FirstFit(args[2])]) - 1
         /\ timer_ticks <= CounterMax(args[2])
         /\ ret >= 0
    ELSE /\ ret = -1
         /\ ~locals.written

C9_Witness ==
  /\ PrescSuccess
  /\ args[2] = 2
  /\ ~FitsCounter(256)
  /\ FitsCounter(1024)
  /\ timer_ticks = (Ratio \div 1024) - 1
  /\ ret = 7

\* C4: round_near_mul_wovf(255, 10) returns 0.
C4_Wovf_255_10_Is_0 ==
  (call = "round_near_mul_wovf" /\ prev = NoPrev /\ args = <<255, 10>>)
    => ret = 0

\* x + y/2 rounded down to a multiple of y, in unbounded integers
HalfUp(x, y) == (x + (y \div 2)) - ((x + (y \div 2)) % y)

\* C5: when the half-up rounded value exceeds 255, round_near_mul_wsat
\* returns (x / y) * y, the largest multiple of y not above x.
C5_WsatSaturates ==
  ( /\ call = "round_near_mul_wsat"
    /\ prev = NoPrev
    /\ args[2] >= 1
    /\ HalfUp(args[1], args[2]) > 255 )
  => /\ ret = (args[1] \div args[2]) * args[2]
     /\ ret <= args[1]
     /\ ret % args[2] = 0
     /\ ret + args[2] > args[1]

C5_Witness ==
  /\ call = "round_near_mul_wsat"
  /\ prev = NoPrev
  /\ args = <<255, 10>>
  /\ HalfUp(255, 10) > 255
  /\ ret = 250

NoOverflow(x, y) == y >= 1 /\ x + (y \div 2) < 256

RoundsUp(x, y) ==
  IF y % 2 = 0 THEN 2 * (x % y) >= y ELSE 2 * (x % y) > y

\* C6: without overflow both rounding functions return the same value, the
\* multiple of y nearest to x with halfway cases rounded up.
C6_SameHalfUpResult ==
  (IsFirstRound /\ NoOverflow(args[1], args[2])) =>
    /\ ret = args[2] * ((args[1] + (args[2] \div 2)) \div args[2])
    /\ ret = round_near_mul_wovf(args[1], args[2])
    /\ ret = round_near_mul_wsat(args[1], args[2])
    /\ ret % args[2] = 0
    /\ ret = IF RoundsUp(args[1], args[2])
             THEN ((args[1] \div args[2]) + 1) * args[2]
             ELSE (args[1] \div args[2]) * args[2]

C6_Witness ==
  /\ call = "round_near_mul_wovf"
  /\ prev = NoPrev
  /\ NoOverflow(args[1], args[2])
  /\ RoundsUp(args[1], args[2])
  /\ 2 * (args[1] % args[2]) = args[2]
  /\ ret = args[1] + (args[2] \div 2)

\* C7: for a non-overflowing input, rounding the rounded value again with the
\* same function and the same y returns the same value.
C7_Idempotent ==
  (prev # NoPrev /\ NoOverflow(prev.x, prev.y)) =>
    /\ args = <<prev.r, prev.y>>
    /\ ret = prev.r

C7_Witness ==
  /\ prev # NoPrev
  /\ prev.fn = "round_near_mul_wsat"
  /\ NoOverflow(prev.x, prev.y)
  /\ prev.r # prev.x
  /\ prev.r + (prev.y \div 2) >= 256
  /\ ret = prev.r

====
